---- MODULE Spec2Model ----
(***************************************************************************)
(* Model of the BRA statistics scraper: the grid partition optimizer and   *)
(* tile enumerator of request_configurator.py, and the request queue,      *)
(* persister and orchestrator of scraper.py.                               *)
(***************************************************************************)
EXTENDS Integers, Sequences, FiniteSets, TLC

\* ------------------------------------------------------------------ bounds
\* Largest number of dimensions of a catalog handed to the optimizer.
MaxDims == 2
\* Largest domain size of one dimension.
MaxDomain == 4
\* Largest row limit.
MaxLimit == 6
\* Largest number of rows of table Requests.
MaxRequests == 3
\* Largest number of rows of table Responses.
MaxResponses == 2
\* Largest number of save_response threads alive at once.
MaxThreads == 2
\* Largest number of characters of a body handed to is_valid_csv on its own.
MaxBody == 5
\* Largest number of keys of a dimension handed to generate_requests on its own.
MaxKeys == 3

VARIABLES
    variables,            \* optimizer input: per dimension its ordered list of values
    limit,                \* optimizer input: the row limit
    optimal_batch_sizes,  \* what find_optimal_combination returned last
    chosen_batch_sizes,   \* the batch sizes last handed to generate_all_combinations
    request_configs,      \* what generate_all_combinations returned last
    op,                   \* the function of request_configurator.py called last
    raised,               \* the exception that call raised, "" when it returned
    partition_data,       \* what get_partition_data returned when called on its own
    row_limit,            \* BraScraper.row_limit
    Requests,             \* the rows of table Requests, in rowid order
    Responses,            \* the rows of table Responses, in rowid order
    FailedRequests,       \* the rows of table FailedRequests
    threads,              \* the save_response threads started by save_response_async
    lock,                 \* the thread holding the write lock of the database file, or 0
    run,                  \* what the last scrape_all / resume_scrape did
    csv_response,         \* the response handed to is_valid_csv called on its own
    classification        \* what that call returned: "Valid" for True, "Malformed" for False

optVars ==
    <<variables, limit, optimal_batch_sizes, chosen_batch_sizes, request_configs, op, raised,
      partition_data>>

queueVars == <<row_limit, Requests, Responses, FailedRequests, threads, lock, run>>

csvVars == <<csv_response, classification>>

vars == <<optVars, queueVars, csvVars>>

\* ------------------------------------------------------- python primitives
\* math.ceil(a / b) for b # 0
Ceil(a, b) == IF b > 0 THEN (a + b - 1) \div b ELSE 0 - (a \div (0 - b))

RECURSIVE Prod(_)
\* math.prod of a list of numbers
Prod(s) == IF Len(s) = 0 THEN 1 ELSE Head(s) * Prod(Tail(s))

Min(a, b) == IF a < b THEN a ELSE b

\* the set of the elements of a list
Range(s) == {s[i] : i \in 1..Len(s)}

RECURSIVE Concat(_)
\* the concatenation of a list of lists
Concat(ss) == IF Len(ss) = 0 THEN <<>> ELSE Head(ss) \o Concat(Tail(ss))

RECURSIVE IterProduct(_)
\* itertools.product(*lists): the tuples in lexicographic order of positions,
\* the last list varying fastest
IterProduct(lists) ==
    IF Len(lists) = 0 THEN << <<>> >>
    ELSE LET rest == IterProduct(Tail(lists))
         IN  Concat([i \in 1..Len(Head(lists)) |->
                        [j \in 1..Len(rest) |-> <<Head(lists)[i]>> \o rest[j]]])

\* A python dict as the list of its <<key, value>> pairs in insertion order.
DictHas(d, k) == \E i \in 1..Len(d) : d[i][1] = k
DictGet(d, k) == d[CHOOSE i \in 1..Len(d) : d[i][1] = k][2]
DictKeys(d) == [i \in 1..Len(d) |-> d[i][1]]
\* d[k] = v: an existing key keeps its position and gets the new value
DictSet(d, k, v) ==
    IF DictHas(d, k)
    THEN [i \in 1..Len(d) |-> IF d[i][1] = k THEN <<k, v>> ELSE d[i]]
    ELSE Append(d, <<k, v>>)

\* [len(values) for values in variables.values()]
Lens(vs) == [i \in 1..Len(vs) |-> Len(vs[i])]

\* ------------------------------------------------------ get_partition_data
RECURSIVE SizeLoopFirstWins(_, _, _, _)
\* mutant: a batch count keeps the first size that achieves it, the smallest
SizeLoopFirstWins(n, size, stop, size_to_batches) ==
    IF size >= stop THEN size_to_batches
    ELSE SizeLoopFirstWins(n, size + 1, stop,
                           IF DictHas(size_to_batches, Ceil(n, size)) THEN size_to_batches
                           ELSE DictSet(size_to_batches, Ceil(n, size), size))

RECURSIVE SizeLoop(_, _, _, _)
\* the loop over size in range(size, stop) that fills size_to_batches
SizeLoop(n, size, stop, size_to_batches) ==
    IF size >= stop THEN size_to_batches
    ELSE SizeLoop(n, size + 1, stop, DictSet(size_to_batches, Ceil(n, size), size))

\* mutant: the range of sizes stops one short, the full domain is no candidate
size_to_batches_of_short(values, lim) ==
    SizeLoop(Len(values), 1, Min(Len(values), lim + 1), <<>>)

\* size_to_batches of one variable: number of batches -> batch size
size_to_batches_of(values, lim) ==
    SizeLoop(Len(values), 1, Min(Len(values) + 1, lim + 1), <<>>)

\* batch_size_sets (per variable its size_to_batches) and number_of_batches_lists
get_partition_data(vs, lim) ==
    [batch_size_sets |-> [i \in 1..Len(vs) |-> size_to_batches_of(vs[i], lim)],
     number_of_batches_lists |->
        [i \in 1..Len(vs) |-> DictKeys(size_to_batches_of(vs[i], lim))]]

\* ------------------------------------------------ find_optimal_combination
\* [batch_size_sets[var][nbr] for var, nbr in zip(variables.keys(), combo)]
SizesOf(batch_size_sets, combo) ==
    [i \in 1..Len(combo) |-> DictGet(batch_size_sets[i], combo[i])]

\* mutant: the limit test is strict
WithinLimitStrict(batch_sizes_product, lim) == batch_sizes_product < lim

\* mutant: the limit test off by one
WithinLimitOffByOne(batch_sizes_product, lim) == batch_sizes_product <= lim + 1

\* the condition of the inner if: the row estimate of a tile respects the limit
WithinLimit(batch_sizes_product, lim) == batch_sizes_product <= lim

RECURSIVE SearchLoop(_, _, _, _, _, _)
\* the for loop over iter_product(*number_of_batches_lists), from combo i on;
\* best.found = FALSE stands for best_combination None, min_request_count inf
SearchLoop(combos, i, best, batch_size_sets, lower_request_bound, lim) ==
    IF i > Len(combos) THEN best
    ELSE LET combo == combos[i]
             request_count == Prod(combo)
         IN  IF /\ request_count >= lower_request_bound
                /\ (~best.found \/ request_count < best.min_request_count)
                /\ WithinLimit(Prod(SizesOf(batch_size_sets, combo)), lim)
             THEN LET new == [found |-> TRUE, best_combination |-> combo,
                              min_request_count |-> request_count]
                  IN  IF request_count = lower_request_bound
                      THEN new   \* break
                      ELSE SearchLoop(combos, i + 1, new, batch_size_sets,
                                      lower_request_bound, lim)
             ELSE SearchLoop(combos, i + 1, best, batch_size_sets,
                             lower_request_bound, lim)

\* math.ceil(total_rows / limit)
LowerRequestBound(vs, lim) == Ceil(Prod(Lens(vs)), lim)

\* the search of find_optimal_combination: its best_combination and
\* min_request_count when the loop ends
Search(vs, lim) ==
    LET pd == get_partition_data(vs, lim)
    IN  SearchLoop(IterProduct(pd.number_of_batches_lists), 1,
                   [found |-> FALSE, best_combination |-> <<>>, min_request_count |-> 0],
                   pd.batch_size_sets, LowerRequestBound(vs, lim), lim)

\* The value find_optimal_combination returns: the batch size per variable; with
\* limit 0 the division of line 25 raises ZeroDivisionError, on best_combination
\* None the zip of line 47 raises TypeError.
find_optimal_combination(vs, lim) ==
    IF lim = 0 THEN [raised |-> "ZeroDivisionError", sizes |-> <<>>]
    ELSE IF LowerRequestBound(vs, lim) = 1 THEN [raised |-> "", sizes |-> Lens(vs)]
    ELSE LET best == Search(vs, lim)
         IN  IF best.found
             THEN [raised |-> "",
                   sizes |-> SizesOf(get_partition_data(vs, lim).batch_size_sets,
                                     best.best_combination)]
             ELSE [raised |-> "TypeError", sizes |-> <<>>]

\* ---------------------------------------------------------- tile enumerator
\* mutant: every slice runs one value into the next one
split_into_batches_overlap(values, batch_size) ==
    [k \in 1..Ceil(Len(values), batch_size) |->
        SubSeq(values, (k - 1) * batch_size + 1, Min(k * batch_size + 1, Len(values)))]

\* mutant: the number of slices rounded down, the final shorter slice lost
split_into_batches_floor(values, batch_size) ==
    [k \in 1..(Len(values) \div batch_size) |->
        SubSeq(values, (k - 1) * batch_size + 1, Min(k * batch_size, Len(values)))]

\* values[i * batch_size : (i + 1) * batch_size] for i in range(nbr_of_lists)
split_into_batches(values, batch_size) ==
    [k \in 1..Ceil(Len(values), batch_size) |->
        SubSeq(values, (k - 1) * batch_size + 1, Min(k * batch_size, Len(values)))]

\* the list of tiles: one batch per variable, in product order
generate_all_combinations(vs, batch_sizes) ==
    IterProduct([i \in 1..Len(vs) |-> split_into_batches(vs[i], batch_sizes[i])])

\* get_request_configs(variables, limit, return_optimal_batch_sizes=True)
get_request_configs(vs, lim) ==
    LET r == find_optimal_combination(vs, lim)
    IN  IF r.raised # "" THEN [raised |-> r.raised, sizes |-> <<>>, configs |-> <<>>]
        ELSE [raised |-> "", sizes |-> r.sizes,
              configs |-> generate_all_combinations(vs, r.sizes)]

\* ------------------------------------------------------------ the catalogs
\* BraScraper.topic_ids
TopicIds == <<1, 2>>

\* BraScraper.dimensions[topic_id]: the value identifiers of crime, region, period
Dimensions(topic_id) ==
    IF topic_id = 1
    THEN [crime |-> <<"1", "2">>, region |-> <<"1">>, period |-> <<"1">>]
    ELSE [crime |-> <<"3">>, region |-> <<"1">>, period |-> <<"1">>]

\* the row limits a BraScraper is constructed with
RowLimits == {2}

\* a response of the result endpoint: ok is the truth value of the
\* requests.Response (status code below 400), text its body, a string as the
\* sequence of its characters
ValidBody == [ok |-> TRUE, text |-> <<";", ";", "\n", ";", ";">>]
SingleLineBody == [ok |-> TRUE, text |-> <<";", ";">>]
ResponseBodies == {ValidBody, SingleLineBody}

\* -------------------------------------------------------------- strings
RECURSIVE Join(_, _)
\* sep.join(strs), a string as the sequence of its characters
Join(sep, strs) ==
    IF Len(strs) = 0 THEN <<>>
    ELSE IF Len(strs) = 1 THEN <<strs[1]>>
    ELSE <<strs[1], sep>> \o Join(sep, Tail(strs))

RECURSIVE Split(_, _)
\* text.split(sep): the pieces between the separators, empty pieces kept
Split(text, sep) ==
    IF \A i \in 1..Len(text) : text[i] # sep THEN <<text>>
    ELSE LET k == CHOOSE i \in 1..Len(text) :
                      text[i] = sep /\ \A j \in 1..(i - 1) : text[j] # sep
         IN  <<SubSeq(text, 1, k - 1)>> \o Split(SubSeq(text, k + 1, Len(text)), sep)

\* line.count(separator)
Count(line, separator) == Cardinality({i \in 1..Len(line) : line[i] = separator})

\* ------------------------------------------------------------- the queue
\* the database: the three tables of init_db
Db == [Requests |-> Requests, Responses |-> Responses, FailedRequests |-> FailedRequests]

\* CREATE TABLE IF NOT EXISTS ...: the tables of a new database file
init_db == [Requests |-> <<>>, Responses |-> <<>>, FailedRequests |-> {}]

\* the integer an AUTOINCREMENT key gets: one more than the largest in the table
NextId(ids) == IF ids = {} THEN 1 ELSE 1 + CHOOSE m \in ids : \A x \in ids : x <= m

RequestIds(reqs) == {reqs[i].request_id : i \in 1..Len(reqs)}

\* INSERT INTO Requests (topic_id, payload): one row per payload, status Pending
bulk_insert_requests(reqs, payloads, topic_id) ==
    reqs \o [i \in 1..Len(payloads) |->
                [request_id |-> NextId(RequestIds(reqs)) + i - 1, topic_id |-> topic_id,
                 payload |-> payloads[i], status |-> "Pending"]]

RECURSIVE SelectPendingAnyStatus(_, _)
\* mutant: the WHERE clause has lost status = 'Pending'
SelectPendingAnyStatus(reqs, topic_id) ==
    IF Len(reqs) = 0 THEN <<>>
    ELSE (IF topic_id = 0 \/ Head(reqs).topic_id = topic_id
          THEN << <<Head(reqs).payload>> >> ELSE <<>>)
         \o SelectPendingAnyStatus(Tail(reqs), topic_id)

RECURSIVE SelectPending(_, _)
\* SELECT payload FROM Requests WHERE [topic_id = ? AND] status = 'Pending'
SelectPending(reqs, topic_id) ==
    IF Len(reqs) = 0 THEN <<>>
    ELSE (IF /\ Head(reqs).status = "Pending"
             /\ (topic_id = 0 \/ Head(reqs).topic_id = topic_id)
          THEN << <<Head(reqs).payload>> >> ELSE <<>>)
         \o SelectPending(Tail(reqs), topic_id)

\* the rows get_pending_requests returns: 1-tuples (payload,); a topic_id that
\* is falsy (None, 0) selects the pending requests of all topics
get_pending_requests(reqs, topic_id) == SelectPending(reqs, topic_id)

\* mutant: table FailedRequests is dropped with the other two
reset_db_all_tables(db) == init_db

\* mutant: only table Requests is dropped
reset_db_requests_only(db) == [db EXCEPT !.Requests = <<>>]

\* DROP TABLE Requests, DROP TABLE Responses, then init_db(), which leaves the
\* existing table FailedRequests as it is
reset_db(db) == [init_db EXCEPT !.FailedRequests = db.FailedRequests]

\* mutant: the total measure is looked up under the name of the docstring
construct_payload_total(request_config) ==
    [brottstyp_id_string |-> Join("*", request_config[1]),
     region_id_string |-> Join("*", request_config[2]),
     period_id_string |-> Join("*", request_config[3]),
     antal |-> IF \E i \in 1..Len(request_config[4]) : request_config[4][i] = "total"
               THEN 1 ELSE 0,
     antal_100k |-> IF \E i \in 1..Len(request_config[4]) : request_config[4][i] = "antal_100k"
                    THEN 1 ELSE 0]

\* the payload of one request configuration
construct_payload(request_config) ==
    [brottstyp_id_string |-> Join("*", request_config[1]),
     region_id_string |-> Join("*", request_config[2]),
     period_id_string |-> Join("*", request_config[3]),
     antal |-> IF \E i \in 1..Len(request_config[4]) : request_config[4][i] = "antal"
               THEN 1 ELSE 0,
     antal_100k |-> IF \E i \in 1..Len(request_config[4]) : request_config[4][i] = "antal_100k"
                    THEN 1 ELSE 0]

\* the payloads generate_requests hands to bulk_insert_requests
PayloadsOf(dimensions, lim) ==
    LET vs == <<dimensions.crime, dimensions.region, dimensions.period,
                <<"antal", "antal_100k">> >>
        request_configs_ == get_request_configs(vs, lim).configs
    IN  [i \in 1..Len(request_configs_) |-> construct_payload(request_configs_[i])]

\* table Requests after generate_requests(topic_id, dimensions, row_limit)
generate_requests(reqs, topic_id, dimensions, lim) ==
    bulk_insert_requests(reqs, PayloadsOf(dimensions, lim), topic_id)

\* the payloads of every topic of the catalog under every row limit: they depend
\* on nothing else, so they are computed once
TilePayloads ==
    [topic_id \in {TopicIds[i] : i \in 1..Len(TopicIds)}, lim \in RowLimits |->
        PayloadsOf(Dimensions(topic_id), lim)]

\* table Requests after generate_requests(topic_id, self.dimensions[topic_id],
\* row_limit), the payloads taken from TilePayloads
generate_requests_of_topic(reqs, topic_id, lim) ==
    bulk_insert_requests(reqs, TilePayloads[topic_id, lim], topic_id)

RECURSIVE PopulateLoop(_, _, _)
\* for topic_id in self.topic_ids: generate_requests(...), from topic i on
PopulateLoop(reqs, i, lim) ==
    IF i > Len(TopicIds) THEN reqs
    ELSE PopulateLoop(generate_requests_of_topic(reqs, TopicIds[i], lim), i + 1, lim)

\* ----------------------------------------------------------- the persister
\* mutant: the check that there are two lines is lost, a first line with
\* separators is accepted
is_valid_csv_first_line(response) ==
    /\ response.ok
    /\ Len(response.text) > 0
    /\ Count(Split(response.text, "\n")[1], ";") > 1

\* mutant: one separator per line is enough
is_valid_csv_one_separator(response) ==
    IF ~response.ok \/ Len(response.text) = 0 THEN FALSE
    ELSE LET lines == Split(response.text, "\n")
         IN  IF Len(lines) < 2 THEN FALSE
             ELSE /\ Count(lines[1], ";") > 0
                  /\ Count(lines[1], ";") = Count(lines[2], ";")

\* is_valid_csv(response, separator=";")
is_valid_csv(response) ==
    IF ~response.ok \/ Len(response.text) = 0 THEN FALSE
    ELSE LET lines == Split(response.text, "\n")
         IN  IF Len(lines) < 2 THEN FALSE
             ELSE /\ Count(lines[1], ";") > 1
                  /\ Count(lines[1], ";") = Count(lines[2], ";")

\* mutant: a malformed response marks the request as failed for good
save_response_statements_error(request_id, response) ==
    IF ~is_valid_csv(response)
    THEN << [sql |-> "INSERT INTO FailedRequests", request_id |-> request_id,
             value |-> <<"Invalid CSV response">>],
            [sql |-> "UPDATE Requests SET status", request_id |-> request_id,
             value |-> "Error"] >>
    ELSE << [sql |-> "REPLACE INTO Responses", request_id |-> request_id,
             value |-> response.text],
            [sql |-> "UPDATE Requests SET status", request_id |-> request_id,
             value |-> "Done"] >>

\* mutant: mark_as_done is not set on the valid branch
save_response_statements_no_mark(request_id, response) ==
    IF ~is_valid_csv(response)
    THEN << [sql |-> "INSERT INTO FailedRequests", request_id |-> request_id,
             value |-> <<"Invalid CSV response">>] >>
    ELSE << [sql |-> "REPLACE INTO Responses", request_id |-> request_id,
             value |-> response.text] >>

\* mutant: mark_as_done starts as True, a malformed response marks the request Done
save_response_statements_mark_always(request_id, response) ==
    IF ~is_valid_csv(response)
    THEN << [sql |-> "INSERT INTO FailedRequests", request_id |-> request_id,
             value |-> <<"Invalid CSV response">>],
            [sql |-> "UPDATE Requests SET status", request_id |-> request_id,
             value |-> "Done"] >>
    ELSE << [sql |-> "REPLACE INTO Responses", request_id |-> request_id,
             value |-> response.text],
            [sql |-> "UPDATE Requests SET status", request_id |-> request_id,
             value |-> "Done"] >>

\* the statements save_response executes in its transaction, in order: sql_query
\* with query_params, then the UPDATE when mark_as_done
save_response_statements(request_id, response) ==
    IF ~is_valid_csv(response)
    THEN << [sql |-> "INSERT INTO FailedRequests", request_id |-> request_id,
             value |-> <<"Invalid CSV response">>] >>
    ELSE << [sql |-> "REPLACE INTO Responses", request_id |-> request_id,
             value |-> response.text],
            [sql |-> "UPDATE Requests SET status", request_id |-> request_id,
             value |-> "Done"] >>

\* the columns of table Responses that carry a PRIMARY KEY or UNIQUE constraint
ResponsesKeyColumns == {"response_id"}

\* REPLACE INTO Responses(request_id, response_text): the rows that collide with
\* the new row on a key column are deleted, then the new row is inserted
replace_into_responses(resps, request_id, response_text) ==
    LET new == [response_id |-> NextId({resps[i].response_id : i \in 1..Len(resps)}),
                request_id |-> request_id, response_text |-> response_text]
    IN  SelectSeq(resps, LAMBDA row : \A col \in ResponsesKeyColumns : row[col] # new[col])
        \o <<new>>

\* INSERT INTO FailedRequests (request_id, info): request_id is the primary key
FailedRequestsRaises(failed, request_id) == \E row \in failed : row.request_id = request_id

\* UPDATE Requests SET status = ? WHERE request_id = ?
update_request_status(reqs, request_id, status) ==
    [i \in 1..Len(reqs) |->
        IF reqs[i].request_id = request_id THEN [reqs[i] EXCEPT !.status = status]
        ELSE reqs[i]]

\* whether c.execute of the statement raises sqlite3.IntegrityError
Raises(db, stmt) ==
    /\ stmt.sql = "INSERT INTO FailedRequests"
    /\ FailedRequestsRaises(db.FailedRequests, stmt.request_id)

\* the database as the transaction sees it after c.execute of the statement
Execute(db, stmt) ==
    IF stmt.sql = "INSERT INTO FailedRequests"
    THEN [db EXCEPT !.FailedRequests =
              @ \cup {[request_id |-> stmt.request_id, info |-> stmt.value]}]
    ELSE IF stmt.sql = "REPLACE INTO Responses"
    THEN [db EXCEPT !.Responses = replace_into_responses(@, stmt.request_id, stmt.value)]
    ELSE [db EXCEPT !.Requests = update_request_status(@, stmt.request_id, stmt.value)]

RECURSIVE ExecuteAll(_, _)
\* the database after the statements of a transaction, in order
ExecuteAll(db, tx) ==
    IF Len(tx) = 0 THEN db ELSE ExecuteAll(Execute(db, Head(tx)), Tail(tx))

\* --------------------------------------------------------- the orchestrator
\* execute_and_save_requests(requests, topic_id): inside the function the name
\* requests is its first parameter, the list of rows, and not the module
\* requests: the with statement evaluates requests.Session on a list and raises
\* AttributeError before any network step. steps lists the calls made on the
\* session, posted the payloads submitted, dispatched the calls of
\* save_response_async.
execute_and_save_requests(requests, topic_id) ==
    [raised |-> "AttributeError", steps |-> <<>>, posted |-> <<>>, dispatched |-> <<>>]

RECURSIVE ScrapeLoop(_, _, _)
\* for topic_id, requests in topic_id_to_requests.items(), from topic i on: an
\* exception of execute_and_save_requests ends the loop and leaves scrape_all;
\* started lists the topics execute_and_save_requests was called for
ScrapeLoop(topic_id_to_requests, i, done) ==
    IF i > Len(TopicIds) THEN done
    ELSE LET r == execute_and_save_requests(topic_id_to_requests[i], TopicIds[i])
             acc == [raised |-> r.raised, started |-> Append(done.started, TopicIds[i]),
                     steps |-> done.steps \o r.steps,
                     posted |-> done.posted \o r.posted,
                     dispatched |-> done.dispatched \o r.dispatched]
         IN  IF r.raised # "" THEN acc
             ELSE ScrapeLoop(topic_id_to_requests, i + 1, acc)

\* scrape_all: what it read from the queue and what it did
scrape_all(reqs) ==
    LET topic_id_to_requests ==
            [i \in 1..Len(TopicIds) |-> get_pending_requests(reqs, TopicIds[i])]
        r == ScrapeLoop(topic_id_to_requests, 1,
                        [raised |-> "", started |-> <<>>, steps |-> <<>>, posted |-> <<>>,
                         dispatched |-> <<>>])
    IN  [invoked |-> TRUE, raised |-> r.raised, started |-> r.started, steps |-> r.steps,
         posted |-> r.posted, dispatched |-> r.dispatched]

\* ------------------------------------------------- specification of the queue
IdleThread == [pc |-> "idle", request_id |-> 0, response |-> [ok |-> FALSE, text |-> <<>>],
               tx |-> <<>>]

NoRun ==
    [invoked |-> FALSE, raised |-> "", started |-> <<>>, steps |-> <<>>, posted |-> <<>>,
     dispatched |-> <<>>]

QueueIdle ==
    /\ Requests = init_db.Requests
    /\ Responses = init_db.Responses
    /\ FailedRequests = init_db.FailedRequests
    /\ threads = [t \in 1..MaxThreads |-> IdleThread]
    /\ lock = 0
    /\ run = NoRun

CsvIdle ==
    /\ csv_response = IdleThread.response
    /\ classification = "none"

OptIdle ==
    /\ variables = <<>>
    /\ limit = 1
    /\ optimal_batch_sizes = <<>>
    /\ chosen_batch_sizes = <<>>
    /\ request_configs = <<>>
    /\ op = "none"
    /\ raised = ""
    /\ partition_data = <<>>

\* BraScraper(row_limit) on a new database file
Init ==
    /\ row_limit \in RowLimits
    /\ QueueIdle
    /\ OptIdle
    /\ CsvIdle

SetDb(db) ==
    /\ Requests' = db.Requests
    /\ Responses' = db.Responses
    /\ FailedRequests' = db.FailedRequests

\* _reset_db()
ResetDb ==
    /\ lock = 0
    /\ SetDb(reset_db(Db))
    /\ UNCHANGED <<row_limit, threads, lock, run, optVars, csvVars>>

\* generate_requests(topic_id, self.dimensions[topic_id], self.row_limit)
GenerateRequests(topic_id) ==
    /\ lock = 0
    /\ Len(Requests) + Len(TilePayloads[topic_id, row_limit]) <= MaxRequests
    /\ Requests' = generate_requests_of_topic(Requests, topic_id, row_limit)
    /\ UNCHANGED <<row_limit, Responses, FailedRequests, threads, lock, run, optVars, csvVars>>

\* BraScraper._populate_requests()
PopulateRequests ==
    /\ lock = 0
    /\ SetDb([reset_db(Db) EXCEPT !.Requests = PopulateLoop(reset_db(Db).Requests, 1, row_limit)])
    /\ UNCHANGED <<row_limit, threads, lock, run, optVars, csvVars>>

\* the threads that will insert a row into Responses when they commit
Inserting == {t \in 1..MaxThreads : threads[t].pc = "running" /\ is_valid_csv(threads[t].response)}

\* save_response_async(request_id, response): starts a save_response thread
SaveResponseAsync(request_id, response) ==
    /\ \E t \in 1..MaxThreads : threads[t].pc = "idle"
    /\ is_valid_csv(response) => Len(Responses) + Cardinality(Inserting) < MaxResponses
    /\ LET t == CHOOSE u \in 1..MaxThreads :
                    threads[u].pc = "idle" /\ \A v \in 1..(u - 1) : threads[v].pc # "idle"
       IN  threads' = [threads EXCEPT ![t] = [pc |-> "running", request_id |-> request_id,
                                              response |-> response, tx |-> <<>>]]
    /\ UNCHANGED <<row_limit, Requests, Responses, FailedRequests, lock, run, optVars, csvVars>>

\* the statement a running thread executes next, when it has one left
NextStatement(t) ==
    save_response_statements(threads[t].request_id, threads[t].response)[Len(threads[t].tx) + 1]

HasStatement(t) ==
    /\ threads[t].pc = "running"
    /\ Len(threads[t].tx) <
           Len(save_response_statements(threads[t].request_id, threads[t].response))

\* c.execute(...) of a save_response thread: the first one takes the write lock,
\* the write stays in the thread's transaction
SaveExecute(t) ==
    /\ HasStatement(t)
    /\ lock \in {0, t}
    /\ ~Raises(ExecuteAll(Db, threads[t].tx), NextStatement(t))
    /\ threads' = [threads EXCEPT ![t].tx = Append(@, NextStatement(t))]
    /\ lock' = t
    /\ UNCHANGED <<row_limit, Requests, Responses, FailedRequests, run, optVars, csvVars>>

\* c.execute(...) raises sqlite3.IntegrityError: the except branch logs it,
\* conn.close() drops the uncommitted transaction
SaveIntegrityError(t) ==
    /\ HasStatement(t)
    /\ lock \in {0, t}
    /\ Raises(ExecuteAll(Db, threads[t].tx), NextStatement(t))
    /\ threads' = [threads EXCEPT ![t] = IdleThread]
    /\ lock' = 0
    /\ UNCHANGED <<row_limit, Requests, Responses, FailedRequests, run, optVars, csvVars>>

\* mutant: the connection commits each statement as it is executed, the writes
\* made before the error stay
SaveOperationalErrorAutocommit(t) ==
    /\ threads[t].pc = "running"
    /\ SetDb(ExecuteAll(Db, threads[t].tx))
    /\ threads' = [threads EXCEPT ![t] = IdleThread]
    /\ lock' = IF lock = t THEN 0 ELSE lock
    /\ UNCHANGED <<row_limit, run, optVars, csvVars>>

\* a c.execute(...) or conn.commit() raises sqlite3.OperationalError (database is
\* locked, disk I/O error): the except branch logs it, conn.close() drops the
\* uncommitted transaction
SaveOperationalError(t) ==
    /\ threads[t].pc = "running"
    /\ threads' = [threads EXCEPT ![t] = IdleThread]
    /\ lock' = IF lock = t THEN 0 ELSE lock
    /\ UNCHANGED <<row_limit, Requests, Responses, FailedRequests, run, optVars, csvVars>>

\* conn.commit(): the writes of the transaction take effect together
SaveCommit(t) ==
    /\ threads[t].pc = "running"
    /\ ~HasStatement(t)
    /\ lock = t
    /\ SetDb(ExecuteAll(Db, threads[t].tx))
    /\ threads' = [threads EXCEPT ![t] = IdleThread]
    /\ lock' = 0
    /\ UNCHANGED <<row_limit, run, optVars, csvVars>>

\* BraScraper.scrape_all() and resume_scrape(), which calls it
ScrapeAll ==
    /\ run' = scrape_all(Requests)
    /\ UNCHANGED <<row_limit, Requests, Responses, FailedRequests, threads, lock, optVars, csvVars>>

Next ==
    \/ ResetDb
    \/ PopulateRequests
    \/ \E i \in 1..Len(TopicIds) : GenerateRequests(TopicIds[i])
    \/ \E request_id \in RequestIds(Requests), response \in ResponseBodies :
           SaveResponseAsync(request_id, response)
    \/ \E t \in 1..MaxThreads : SaveExecute(t)
    \/ \E t \in 1..MaxThreads : SaveIntegrityError(t)
    \/ \E t \in 1..MaxThreads : SaveOperationalError(t)
    \/ \E t \in 1..MaxThreads : SaveCommit(t)
    \/ ScrapeAll

Spec == Init /\ [][Next]_vars

\* ------------------------------------------- specification of the optimizer
\* the ordered list of n distinct value identifiers of a dimension
Domain(n) == [k \in 1..n |-> k]

\* the catalog of the worked example: crime with 5 values, region with 3
ExampleCatalog == <<Domain(5), Domain(3)>>

\* the catalogs: 1..MaxDims dimensions with 1..MaxDomain values each, and the
\* catalog of the worked example
Catalogs ==
    UNION {[1..d -> {Domain(n) : n \in 1..MaxDomain}] : d \in 1..MaxDims}
        \cup {ExampleCatalog}

\* limits for which no batch size exists
InfeasibleLimits == {0 - 1, 0}

\* the limits the optimizer is called with
Limits == InfeasibleLimits \cup 1..MaxLimit

\* the largest domain size of a catalog
MaxLen(vs) == CHOOSE n \in Range(Lens(vs)) : \A m \in Range(Lens(vs)) : m <= n

\* the batch sizes a caller may hand to generate_all_combinations
BatchSizeChoices(vs) ==
    {s \in [1..Len(vs) -> 1..MaxLen(vs)] : \A i \in 1..Len(vs) : s[i] <= Len(vs[i])}

OptInit ==
    /\ variables \in Catalogs
    /\ limit \in Limits
    /\ optimal_batch_sizes = <<>>
    /\ chosen_batch_sizes = <<>>
    /\ request_configs = <<>>
    /\ op = "none"
    /\ raised = ""
    /\ partition_data = <<>>
    /\ row_limit = 1
    /\ QueueIdle
    /\ CsvIdle

\* find_optimal_combination(variables, limit), the one call of the behaviour
FindOptimalCombination ==
    /\ op = "none"
    /\ optimal_batch_sizes' = find_optimal_combination(variables, limit).sizes
    /\ raised' = find_optimal_combination(variables, limit).raised
    /\ chosen_batch_sizes' = <<>>
    /\ request_configs' = <<>>
    /\ op' = "find_optimal_combination"
    /\ UNCHANGED <<variables, limit, partition_data, queueVars, csvVars>>

\* generate_all_combinations(variables, sizes) for batch sizes of the caller's choice
GenerateAllCombinations ==
    \E sizes \in BatchSizeChoices(variables) :
        /\ op = "none"
        /\ optimal_batch_sizes' = <<>>
        /\ chosen_batch_sizes' = sizes
        /\ request_configs' = generate_all_combinations(variables, sizes)
        /\ op' = "generate_all_combinations"
        /\ raised' = ""
        /\ UNCHANGED <<variables, limit, partition_data, queueVars, csvVars>>

\* get_request_configs(variables, limit, return_optimal_batch_sizes=True)
GetRequestConfigs ==
    LET r == get_request_configs(variables, limit)
    IN  /\ op = "none"
        /\ optimal_batch_sizes' = r.sizes
        /\ chosen_batch_sizes' = r.sizes
        /\ request_configs' = r.configs
        /\ op' = "get_request_configs"
        /\ raised' = r.raised
        /\ UNCHANGED <<variables, limit, partition_data, queueVars, csvVars>>

\* get_partition_data(variables, limit)
GetPartitionData ==
    /\ op = "none"
    /\ partition_data' = get_partition_data(variables, limit)
    /\ op' = "get_partition_data"
    /\ UNCHANGED <<variables, limit, optimal_batch_sizes, chosen_batch_sizes, request_configs,
                   raised, queueVars, csvVars>>

OptNext ==
    \/ GetPartitionData
    \/ FindOptimalCombination
    \/ GenerateAllCombinations
    \/ GetRequestConfigs

SpecOpt == OptInit /\ [][OptNext]_vars

\* ------------------------------------------ specification of the classifier
\* the characters of a body: the separator, the line break, any other character
Chars == {";", "\n", "x"}

\* the strings of at most n characters
Strings(n) == UNION {[1..k -> Chars] : k \in 0..n}

\* the responses handed to is_valid_csv: any status, any body
CsvResponses == [ok : BOOLEAN, text : Strings(MaxBody)]

CsvInit ==
    /\ csv_response \in CsvResponses
    /\ classification = "none"
    /\ row_limit = 1
    /\ QueueIdle
    /\ OptIdle

\* is_valid_csv(csv_response)
IsValidCsv ==
    /\ classification' = IF is_valid_csv(csv_response) THEN "Valid" ELSE "Malformed"
    /\ UNCHANGED <<csv_response, optVars, queueVars>>

CsvNext == IsValidCsv

SpecCsv == CsvInit /\ [][CsvNext]_vars

\* ------------------------------------- specification of request generation
\* the keys of a dimension with n values
Keys(n) == [k \in 1..n |-> ToString(k)]

\* the dict generate_requests builds from the dimensions of a topic: crime,
\* region and period with 1..MaxKeys keys each, and the two measures
GenerateVariables ==
    {<<Keys(c), Keys(r), Keys(p), <<"antal", "antal_100k">> >> :
        c \in 1..MaxKeys, r \in 1..MaxKeys, p \in 1..MaxKeys}

GenInit ==
    /\ variables \in GenerateVariables
    /\ limit \in 1..MaxLimit
    /\ optimal_batch_sizes = <<>>
    /\ chosen_batch_sizes = <<>>
    /\ request_configs = <<>>
    /\ op = "none"
    /\ raised = ""
    /\ partition_data = <<>>
    /\ row_limit = 1
    /\ QueueIdle
    /\ CsvIdle

\* generate_requests(1, dimensions, limit) on a new database
GenerateRequestsOf ==
    /\ op = "none"
    /\ Requests' = generate_requests(Requests, 1,
                                     [crime |-> variables[1], region |-> variables[2],
                                      period |-> variables[3]], limit)
    /\ op' = "generate_requests"
    /\ UNCHANGED <<variables, limit, optimal_batch_sizes, chosen_batch_sizes, request_configs,
                   raised, partition_data, row_limit, Responses, FailedRequests, threads, lock, run, csvVars>>

GenNext == GenerateRequestsOf

SpecGen == GenInit /\ [][GenNext]_vars

\* ------------------------------------------------- claims on the optimizer

\* the number of tiles that batch sizes imply: the product of ceil(domainSize_i / size_i)
TileCount(vs, sizes) == Prod([i \in 1..Len(vs) |-> Ceil(Len(vs[i]), sizes[i])])

\* the optimizer was called with a limit of at least 1
OptimizerReturned ==
    /\ op \in {"find_optimal_combination", "get_request_configs"}
    /\ limit >= 1

\* C1: the batch sizes find_optimal_combination returns, one per dimension, have
\* a product that does not exceed the limit, on the fast path and on the search path.
C1_ProductWithinLimit ==
    OptimizerReturned =>
        /\ raised = ""
        /\ Len(optimal_batch_sizes) = Len(variables)
        /\ Prod(optimal_batch_sizes) <= limit

\* the search path has returned a plan of more than one tile
C1_Witness ==
    /\ op = "find_optimal_combination"
    /\ limit >= 1
    /\ LowerRequestBound(variables, limit) > 1
    /\ Len(optimal_batch_sizes) = Len(variables)
    /\ \E i \in 1..Len(variables) : optimal_batch_sizes[i] > 1

\* C2: the tile count of the returned batch sizes is minimal among all size
\* assignments with 1 <= size_i <= domainSize_i whose product respects the limit.
C2_MinimalTileCount ==
    OptimizerReturned =>
        \A s \in BatchSizeChoices(variables) :
            Prod(s) <= limit =>
                TileCount(variables, optimal_batch_sizes) <= TileCount(variables, s)

\* the slices of dimension i that occur in the tiles
SlicesOf(i) == {request_configs[t][i] : t \in 1..Len(request_configs)}

\* one value per dimension
Points(vs) == {p \in [1..Len(vs) -> 1..MaxLen(vs)] : \A i \in 1..Len(vs) : p[i] \in Range(vs[i])}

\* C3: the tiles of generate_all_combinations partition the parameter space: per
\* dimension the slices are consecutive, non-empty, no longer than the batch size
\* and every domain value lies in exactly one slice; every combination of one
\* value per dimension lies in exactly one tile.
C3_TilesPartition ==
    op = "generate_all_combinations" =>
        /\ \A i \in 1..Len(variables) :
            /\ \A sl \in SlicesOf(i) :
                /\ Len(sl) >= 1
                /\ Len(sl) <= chosen_batch_sizes[i]
                /\ \E a \in 1..Len(variables[i]) :
                       sl = SubSeq(variables[i], a, a + Len(sl) - 1)
            /\ \A v \in Range(variables[i]) :
                   Cardinality({sl \in SlicesOf(i) : v \in Range(sl)}) = 1
        /\ \A p \in Points(variables) :
               Cardinality({t \in 1..Len(request_configs) :
                   \A i \in 1..Len(variables) : p[i] \in Range(request_configs[t][i])}) = 1

\* tiles were generated with a batch size that leaves a shorter final slice
C3_Witness ==
    /\ op = "generate_all_combinations"
    /\ Len(request_configs) > 2
    /\ \E i \in 1..Len(variables) :
        /\ chosen_batch_sizes[i] > 1
        /\ Len(variables[i]) % chosen_batch_sizes[i] # 0

\* C4: the number of tiles get_request_configs produces is the product of
\* ceil(domainSize_i / size_i) for the returned batch sizes and the request count
\* of the winning combination of the search (1 on the fast path).
C4_TileCountIsRequestCount ==
    (op = "get_request_configs" /\ limit >= 1) =>
        /\ Len(request_configs) = TileCount(variables, optimal_batch_sizes)
        /\ Len(request_configs) =
              IF LowerRequestBound(variables, limit) = 1 THEN 1
              ELSE Search(variables, limit).min_request_count

\* get_request_configs went through the search and produced several tiles, one
\* dimension being cut into slices with a shorter final slice
C4_Witness ==
    /\ op = "get_request_configs"
    /\ limit >= 1
    /\ LowerRequestBound(variables, limit) > 1
    /\ Len(request_configs) > 1
    /\ \E i \in 1..Len(variables) :
        /\ optimal_batch_sizes[i] > 1
        /\ Len(variables[i]) % optimal_batch_sizes[i] # 0

\* the exceptions that report a configuration error
ConfigurationErrors == {"ValueError", "ConfigurationError"}

\* C12: when no combination of batch sizes satisfies the product bound (a limit
\* below 1), find_optimal_combination raises a configuration error; it returns no
\* plan whose size product exceeds the limit and raises nothing else.
C12_InfeasibleIsConfigurationError ==
    op = "find_optimal_combination" =>
        /\ raised \in {""} \cup ConfigurationErrors
        /\ limit < 1 => raised \in ConfigurationErrors
        /\ raised = "" => Prod(optimal_batch_sizes) <= limit

\* find_optimal_combination was called on the worked example: crime with 5
\* values, region with 3 values, limit 4
ExampleCalled ==
    /\ op = "find_optimal_combination"
    /\ variables = ExampleCatalog
    /\ limit = 4

\* C13: for crime with 5 values, region with 3 values and limit 4,
\* find_optimal_combination returns crime size 3 and region size 1.
C13_ExampleReturnsThreeOne ==
    ExampleCalled => optimal_batch_sizes = <<3, 1>>

\* C13 as amended: for crime with 5 values, region with 3 values and limit 4,
\* find_optimal_combination returns crime size 1 and region size 3 (size product
\* 3, 5 x 1 = 5 tiles).
C13_ExampleReturnsOneThree ==
    ExampleCalled =>
        /\ raised = ""
        /\ optimal_batch_sizes = <<1, 3>>
        /\ Prod(optimal_batch_sizes) = 3
        /\ TileCount(variables, optimal_batch_sizes) = 5

\* the optimizer returned a plan of 5 tiles for the worked example
C13_Witness ==
    /\ ExampleCalled
    /\ Len(optimal_batch_sizes) = 2
    /\ TileCount(variables, optimal_batch_sizes) = 5

\* size_to_batches maps exactly the batch counts of the candidate sizes 1..top,
\* each to the largest candidate size that achieves it
LargestSizePerCount(size_to_batches, n, top) ==
    /\ Range(DictKeys(size_to_batches)) = {Ceil(n, sz) : sz \in 1..top}
    /\ Len(size_to_batches) = Cardinality({Ceil(n, sz) : sz \in 1..top})
    /\ \A sz \in 1..top :
           LET kept == DictGet(size_to_batches, Ceil(n, sz))
           IN  /\ kept \in 1..top
               /\ Ceil(n, kept) = Ceil(n, sz)
               /\ kept >= sz

PartitionReturned ==
    /\ op = "get_partition_data"
    /\ limit >= 1

\* C21: for each dimension get_partition_data considers every candidate batch
\* size from 1 to the domain size and maps each distinct batch count to the
\* largest size that achieves it.
C21_SizesUpToDomainSize ==
    PartitionReturned =>
        \A i \in 1..Len(variables) :
            LargestSizePerCount(partition_data.batch_size_sets[i], Len(variables[i]),
                                Len(variables[i]))

\* C21 as amended: for each dimension get_partition_data considers every
\* candidate batch size from 1 to the smaller of the domain size and the limit
\* and maps each distinct batch count to the largest such size that achieves it.
C21_SizesUpToDomainSizeAndLimit ==
    PartitionReturned =>
        \A i \in 1..Len(variables) :
            LargestSizePerCount(partition_data.batch_size_sets[i], Len(variables[i]),
                                Min(Len(variables[i]), limit))

\* get_partition_data ran on a dimension larger than the limit in which two
\* candidate sizes give the same batch count
C21_Witness ==
    /\ PartitionReturned
    /\ \E i \in 1..Len(variables) :
        /\ limit < Len(variables[i])
        /\ Len(partition_data.batch_size_sets[i]) < limit

\* C23: for every limit of at least 1 the search of find_optimal_combination
\* finds a feasible combination: the combination of all batch sizes 1 is among
\* the candidates and within the limit, best_combination is not None when the
\* result is built, and a batch size is returned for every dimension.
C23_SearchFindsCombination ==
    (op = "find_optimal_combination" /\ limit >= 1) =>
        /\ raised # "TypeError"
        /\ DOMAIN optimal_batch_sizes = 1..Len(variables)
        /\ \A i \in 1..Len(variables) : optimal_batch_sizes[i] \in 1..Len(variables[i])
        /\ LowerRequestBound(variables, limit) # 1 =>
              LET pd == get_partition_data(variables, limit)
              IN  /\ Search(variables, limit).found
                  /\ Lens(variables) \in Range(IterProduct(pd.number_of_batches_lists))
                  /\ SizesOf(pd.batch_size_sets, Lens(variables))
                        = [i \in 1..Len(variables) |-> 1]

\* the search ran with limit 1, where only the combination of all sizes 1 is
\* feasible, on a catalog of several rows
C23_Witness ==
    /\ op = "find_optimal_combination"
    /\ limit = 1
    /\ LowerRequestBound(variables, limit) > 2
    /\ optimal_batch_sizes = [i \in 1..Len(variables) |-> 1]

\* ----------------------------------------------------- claims on the queue
\* the rows of table Responses that belong to a request
RowsOf(resps, request_id) == SelectSeq(resps, LAMBDA row : row.request_id = request_id)

\* the payloads of the requests that are not Done, topic by topic, in table order
NotDonePayloads(reqs) ==
    Concat([i \in 1..Len(TopicIds) |->
        LET rows == SelectSeq(reqs, LAMBDA q : q.topic_id = TopicIds[i] /\ q.status # "Done")
        IN  [k \in 1..Len(rows) |-> rows[k].payload]])

\* C5: an invocation of scrape_all / resume_scrape attempts exactly the requests
\* that are not Done when it is invoked, and leaves the status and the responses
\* of the Done requests unchanged.
C5_ResumeAttemptsNotDone ==
    [][ScrapeAll =>
          /\ run'.posted = NotDonePayloads(Requests)
          /\ Requests' = Requests
          /\ Responses' = Responses]_vars

C7_OneResponsePerRequest ==
    \A i, j \in 1..Len(Responses) :
        Responses[i].request_id = Responses[j].request_id => i = j

\* C8: table Requests holds at most one Pending request per (topic id, payload).
C8_OnePendingPerTile ==
    \A i, j \in 1..Len(Requests) :
        (/\ Requests[i].status = "Pending"
         /\ Requests[j].status = "Pending"
         /\ Requests[i].topic_id = Requests[j].topic_id
         /\ Requests[i].payload = Requests[j].payload) => i = j

\* C9: the Response row of a request and its status Done become visible in one
\* step: in every step that writes a Response row for an existing request the
\* request is Done after the step, every step that makes a request Done writes
\* its Response row, and every step of a save_response thread leaves the tables
\* as they were (a statement executed but not committed, a thread ending on an
\* error) or ends the thread with all its writes made.
C9_PersistIsAtomic ==
    [][/\ \A i \in 1..Len(Requests') :
            LET r == Requests'[i].request_id
                written == /\ RowsOf(Responses', r) # RowsOf(Responses, r)
                           /\ RowsOf(Responses', r) # <<>>
                becameDone == /\ i <= Len(Requests)
                              /\ Requests[i].status # "Done"
                              /\ Requests'[i].status = "Done"
            IN  /\ written => Requests'[i].status = "Done"
                /\ becameDone => written
       /\ \A t \in 1..MaxThreads :
            (threads[t].pc = "running" /\ threads'[t] # threads[t]) =>
                \/ UNCHANGED <<Requests, Responses, FailedRequests>>
                \/ /\ threads'[t].pc = "idle"
                   /\ [Requests |-> Requests', Responses |-> Responses',
                       FailedRequests |-> FailedRequests']
                        = ExecuteAll(Db, save_response_statements(threads[t].request_id,
                                                                  threads[t].response))]_vars

\* a request is Done with its Response row while another thread has executed
\* both statements for a request that is still Pending and has no Response row
C9_Witness ==
    /\ \E i \in 1..Len(Requests) :
        /\ Requests[i].status = "Done"
        /\ RowsOf(Responses, Requests[i].request_id) # <<>>
    /\ \E t \in 1..MaxThreads, i \in 1..Len(Requests) :
        /\ threads[t].pc = "running"
        /\ Len(threads[t].tx) = 2
        /\ threads[t].request_id = Requests[i].request_id
        /\ Requests[i].status = "Pending"
        /\ RowsOf(Responses, Requests[i].request_id) = <<>>

\* a body without a line break
IsSingleLine(response) == \A k \in 1..Len(response.text) : response.text[k] # "\n"

PendingOf(topic_id) ==
    {i \in 1..Len(Requests) :
        /\ Requests[i].status = "Pending"
        /\ topic_id # 0 => Requests[i].topic_id = topic_id}

C16_ResetEmptiesPopulationIsPending ==
    [][/\ ResetDb => (Requests' = <<>> /\ Responses' = <<>>)
       /\ PopulateRequests =>
            /\ Requests' # <<>>
            /\ Responses' = <<>>
            /\ \A i \in 1..Len(Requests') : Requests'[i].status = "Pending"
       /\ (Requests = <<>> /\ Requests' # <<>>) =>
            \A i \in 1..Len(Requests') : Requests'[i].status = "Pending"]_vars

\* a populated queue of Pending requests without responses, after a run that
\* left a failure record
C16_Witness ==
    /\ Len(Requests) = Len(PopulateLoop(<<>>, 1, row_limit))
    /\ \A i \in 1..Len(Requests) : Requests[i].status = "Pending"
    /\ Responses = <<>>
    /\ FailedRequests # {}

\* C17: every payload generate_requests enqueues has antal = 1 or antal_100k = 1.
C17_MeasureFlagSet ==
    \A i \in 1..Len(Requests) :
        Requests[i].payload.antal = 1 \/ Requests[i].payload.antal_100k = 1

\* generate_requests enqueued a tile of the total measure alone and a tile of
\* the per-100k measure alone
C17_Witness ==
    /\ op = "generate_requests"
    /\ \E i, j \in 1..Len(Requests) :
        /\ Requests[i].payload.antal = 1 /\ Requests[i].payload.antal_100k = 0
        /\ Requests[j].payload.antal = 0 /\ Requests[j].payload.antal_100k = 1

\* the session steps of one per-topic run over the given rows: the catalog
\* fetch, the topic selection, then per tile the payload submission, the search
\* trigger and the result fetch
StepsOfRun(topic_id, rows) ==
    <<[step |-> "catalog", topic_id |-> topic_id, tile |-> 0],
      [step |-> "topic", topic_id |-> topic_id, tile |-> 0]>>
    \o Concat([k \in 1..Len(rows) |->
            <<[step |-> "payload", topic_id |-> topic_id, tile |-> k],
              [step |-> "search", topic_id |-> topic_id, tile |-> k],
              [step |-> "result", topic_id |-> topic_id, tile |-> k]>>])

\* C18: a per-topic run makes the catalog fetch and the topic selection exactly
\* once, before any tile step, then for each tile in turn the payload
\* submission, the search trigger and the result fetch, one tile after the other.
C18_SessionStepsInOrder ==
    [][ScrapeAll =>
          run'.steps = Concat([i \in 1..Len(TopicIds) |->
                          StepsOfRun(TopicIds[i],
                                     get_pending_requests(Requests, TopicIds[i]))])]_vars

\* the errors of the transport: a connection that fails, a request that times out
TransportErrors == {"ConnectionError", "Timeout"}

\* C19: a run ends when all its tiles were attempted or stops at a transport
\* error; it attempts no tile twice, leaves every status as it is, and when no
\* transport error stops it, it attempts every request that is Pending, also
\* those an earlier run left Pending.
C19_StopsOnlyOnTransportError ==
    [][ScrapeAll =>
          /\ run'.raised \in {""} \cup TransportErrors
          /\ \A j, k \in 1..Len(run'.dispatched) :
                 run'.dispatched[j] = run'.dispatched[k] => j = k
          /\ Requests' = Requests
          /\ run'.raised = "" =>
                 \A i \in 1..Len(Requests) :
                     Requests[i].status = "Pending" =>
                         \E k \in 1..Len(run'.posted) : run'.posted[k] = Requests[i].payload]_vars

\* C20: a run or resume started while a save_response thread that has not
\* committed holds the valid response of a request that is still Pending and has
\* no Response row, fetches that request again.
C20_ResumeRefetchesUncommitted ==
    [][ScrapeAll =>
          \A t \in 1..MaxThreads, i \in 1..Len(Requests) :
              (/\ threads[t].pc = "running"
               /\ is_valid_csv(threads[t].response)
               /\ threads[t].request_id = Requests[i].request_id
               /\ Requests[i].status = "Pending"
               /\ RowsOf(Responses, Requests[i].request_id) = <<>>) =>
                  \E k \in 1..Len(run'.posted) : run'.posted[k] = Requests[i].payload]_vars

\* C22: a malformed response handed to the persister results in a new
\* FailedRequest record for the owning request id also when it is the second or
\* a later one for that request: when the thread of a malformed response ends
\* while the table holds an earlier record of the request and no other thread
\* holds the database, the table has gained a record of the request.
C22_EveryMalformedIsRecorded ==
    [][\A t \in 1..MaxThreads :
          (/\ threads[t].pc = "running"
           /\ threads'[t].pc = "idle"
           /\ ~is_valid_csv(threads[t].response)
           /\ lock \in {0, t}
           /\ \E row \in FailedRequests : row.request_id = threads[t].request_id) =>
              \E row \in FailedRequests' \ FailedRequests :
                  row.request_id = threads[t].request_id]_vars

\* C24: every request with status Done has at least one Response row carrying
\* its request id.
C24_DoneHasResponse ==
    \A i \in 1..Len(Requests) :
        Requests[i].status = "Done" => RowsOf(Responses, Requests[i].request_id) # <<>>

\* a request is Done with its Response row, another one is Pending with a
\* failure record and no Response row
C24_Witness ==
    \E i, j \in 1..Len(Requests) :
        /\ Requests[i].status = "Done"
        /\ RowsOf(Responses, Requests[i].request_id) # <<>>
        /\ Requests[j].status = "Pending"
        /\ RowsOf(Responses, Requests[j].request_id) = <<>>
        /\ \E row \in FailedRequests : row.request_id = Requests[j].request_id

\* C25: _reset_db, on its own and at the start of _populate_requests, leaves
\* table FailedRequests unchanged: every failure record written before the reset
\* is present after it, while the reset empties Requests and Responses.
C25_ResetKeepsFailedRequests ==
    [][/\ ResetDb =>
            /\ FailedRequests' = FailedRequests
            /\ Requests' = <<>> /\ Responses' = <<>>
       /\ PopulateRequests =>
            /\ FailedRequests' = FailedRequests
            /\ Responses' = <<>>]_vars

\* after a reset the two tables are empty and a failure record is still there
C25_Witness ==
    /\ Requests = <<>>
    /\ Responses = <<>>
    /\ FailedRequests # {}

\* C26: when a storage write of a save_response thread fails, the thread
\* swallows the error: it ends, nothing is committed, the three tables are as
\* they were, a request that was Pending is still returned by
\* get_pending_requests, and nothing reaches the orchestrator or another thread.
C26_StorageErrorIsSwallowed ==
    [][\A t \in 1..MaxThreads :
          (SaveIntegrityError(t) \/ SaveOperationalError(t)) =>
              /\ threads'[t].pc = "idle"
              /\ lock' # t
              /\ Requests' = Requests
              /\ Responses' = Responses
              /\ FailedRequests' = FailedRequests
              /\ \A i \in 1..Len(Requests) :
                    (Requests[i].request_id = threads[t].request_id
                     /\ Requests[i].status = "Pending") =>
                        <<Requests[i].payload>>
                            \in Range(get_pending_requests(Requests', Requests[i].topic_id))
              /\ run' = run
              /\ \A u \in 1..MaxThreads : u # t => threads'[u] = threads[u]]_vars

\* the write of a thread is about to fail on the primary key of FailedRequests,
\* for a request that is Pending, while another thread has executed both
\* statements of a valid response and not committed
C26_Witness ==
    \E t, u \in 1..MaxThreads, i \in 1..Len(Requests) :
        /\ HasStatement(t)
        /\ Raises(ExecuteAll(Db, threads[t].tx), NextStatement(t))
        /\ threads[t].request_id = Requests[i].request_id
        /\ Requests[i].status = "Pending"
        /\ threads[u].pc = "running"
        /\ Len(threads[u].tx) = 2

\* C27: scrape_all starts the topics one after another in the order of
\* topic_ids and starts every topic unless a transport failure in the run of a
\* topic ends the invocation; then the topics later in the iteration are not
\* started, and no request changes its status.
C27_TopicsInOrderUntilTransportFailure ==
    [][ScrapeAll =>
          /\ run'.started = SubSeq(TopicIds, 1, Len(run'.started))
          /\ run'.raised \notin TransportErrors => run'.started = TopicIds
          /\ run'.raised \in TransportErrors =>
                 \A k \in 1..Len(run'.steps) : run'.steps[k].topic_id \in Range(run'.started)
          /\ Requests' = Requests]_vars

\* ------------------------------------------------ claims on the classifier
\* the positions of the line breaks of a body
Breaks(text) == {k \in 1..Len(text) : text[k] = "\n"}

\* the position of the first line break at or after position k, or one past the end
BreakFrom(text, k) ==
    IF \E b \in Breaks(text) : b >= k
    THEN CHOOSE b \in Breaks(text) : b >= k /\ \A c \in Breaks(text) : c >= k => b <= c
    ELSE Len(text) + 1

\* the number of separators in the first line of a body
SeparatorsOfFirstLine(text) ==
    Cardinality({k \in 1..(BreakFrom(text, 1) - 1) : text[k] = ";"})

\* the number of separators in the second line of a body that has two lines
SeparatorsOfSecondLine(text) ==
    Cardinality({k \in (BreakFrom(text, 1) + 1)..(BreakFrom(text, BreakFrom(text, 1) + 1) - 1) :
                    text[k] = ";"})

\* C11: is_valid_csv classifies a response as Valid exactly when its body has at
\* least two lines and the first two lines hold the same number of separators,
\* that number being at least 1.
C11_ValidIffEqualNonZeroCounts ==
    classification # "none" =>
        (classification = "Valid" <=>
            /\ Breaks(csv_response.text) # {}
            /\ SeparatorsOfFirstLine(csv_response.text) >= 1
            /\ SeparatorsOfFirstLine(csv_response.text)
                  = SeparatorsOfSecondLine(csv_response.text))

\* C11 as amended: is_valid_csv classifies a response as Valid exactly when the
\* response is a success response (status below 400), its body has at least two
\* lines and the first two lines hold the same number of separators, that number
\* being at least 2.
C11_ValidIffEqualCountsAboveOne ==
    classification # "none" =>
        (classification = "Valid" <=>
            /\ csv_response.ok
            /\ Breaks(csv_response.text) # {}
            /\ SeparatorsOfFirstLine(csv_response.text) >= 2
            /\ SeparatorsOfFirstLine(csv_response.text)
                  = SeparatorsOfSecondLine(csv_response.text))

\* a body of two lines with two separators each was classified Valid
C11_Witness ==
    /\ classification = "Valid"
    /\ Cardinality(Breaks(csv_response.text)) = 1
    /\ SeparatorsOfFirstLine(csv_response.text) = 2
====
